---- MODULE Spec2Model ----
(***************************************************************************)
(* Webhook ingestion and retry subsystem: WebhookStorage (the in-memory    *)
(* records and the file-per-record directory), WebhookQueue (immediate     *)
(* attempt, retry timers, startup re-arming) and the provider processors   *)
(* as the queue sees them.                                                 *)
(*                                                                         *)
(* Time is in seconds.  An optional Date field is a sequence of length 0   *)
(* (undefined) or 1.                                                       *)
(***************************************************************************)
EXTENDS Integers, Sequences, FiniteSets, Bags, TLC

\* ---------------------------------------------------------------- bounds
MaxAdds == 1
MaxRestarts == 1
MaxStoreCalls == 5
MaxProcessCalls == 1
MaxRemovals == 1
UnitEpoch == 1000

\* ------------------------------------------------------ program constants
MAX_RETRY_ATTEMPTS == 3
RETRY_INTERVALS == <<60, 300, 1800>>
StartupRetryDelay == 5
StoreFailThreshold == 3

Providers == {"doordash", "uber", "unknown"}
Statuses == {"pending", "processed", "failed"}

\* The ids of the files the storage directory holds at process start.
DiskIds == {1}

\* Every id the run can need: each record that enters the queue can make the
\* processor store one more record per attempt.
Ids == 1..((Cardinality(DiskIds) + MaxAdds) * (MAX_RETRY_ATTEMPTS + 1))

VARIABLES
    webhooks,         \* WebhookStorage.webhooks: id -> record (in memory)
    disk,             \* the storage directory: id -> record as written to <id>.json
    timers,           \* bag of armed, not yet fired setTimeout timers
    processingQueue,  \* WebhookQueue.processingQueue: id -> timer handle
    inflight,         \* bag of processWebhook calls suspended at the await
    now,              \* the clock: seconds since the process started
    hist,             \* history per id: origin, attempt times, retry delays, successes
    added,            \* number of addToQueue calls that returned an id
    restarts,         \* number of process restarts so far
    justBooted,       \* TRUE in the state a boot leaves
    storeCalls,       \* number of direct store API calls (store-level runs)
    response,         \* the POST handler's answer, in the state its request leaves
    env,              \* process.env as read when the modules load
    processors,       \* WebhookProcessorFactory.processors: provider -> instance
    call              \* the last direct call of a processor-level function, if any

vars == <<webhooks, disk, timers, processingQueue, inflight, now, hist, added,
          restarts, justBooted, storeCalls, response, env, processors, call>>

\* The state of the processor-level functions.
procVars == <<env, processors, call>>

\* ------------------------------------------------------------ small helpers
Min(a, b) == IF a < b THEN a ELSE b
Max(a, b) == IF a > b THEN a ELSE b

Some(x) == <<x>>
None == <<>>

\* The function f with the key k removed.
Without(f, k) == [x \in DOMAIN f \ {k} |-> f[x]]

\* The function f with k bound to v (added or overwritten).
With(f, k, v) == [x \in DOMAIN f \cup {k} |-> IF x = k THEN v ELSE f[x]]

\* Number of copies, over all elements of bag b, whose id field is id.
RECURSIVE SumCopies(_, _)
SumCopies(b, S) ==
    IF S = {} THEN 0
    ELSE LET e == CHOOSE x \in S : TRUE
         IN  b[e] + SumCopies(b, S \ {e})

CountFor(b, id) == SumCopies(b, {e \in DOMAIN b : e.id = id})

BagAdd(b, e) == b (+) SetToBag({e})
BagRemove(b, e) == b (-) SetToBag({e})

\* A fresh id (ids are time- and random-based in the code, so never clash
\* with an id some live object still refers to).
UsedIds ==
    DOMAIN webhooks \cup DOMAIN disk \cup {t.id : t \in DOMAIN timers}
        \cup {a.id : a \in DOMAIN inflight} \cup DOMAIN hist

FreshId(ws) == CHOOSE i \in Ids : i \notin (UsedIds \cup DOMAIN ws)

\* ------------------------------------------------------------ WebhookStorage

\* storeWebhook's record literal.
NewRecord(provider, rawData, headers, t) ==
    [ provider |-> provider,
      receivedAt |-> t,
      processingAttempts |-> 0,
      status |-> "pending",
      rawData |-> rawData,
      headers |-> headers,
      lastProcessingAttempt |-> None,
      processedAt |-> None,
      processingResult |-> "none" ]

\* storeWebhook: push the new record onto the in-memory array.
StoreWebhook(ws, id, provider, rawData, headers, t) ==
    With(ws, id, NewRecord(provider, rawData, headers, t))

\* updateWebhook marking a record failed one attempt late.
UpdatedStatus_Late(status, attempts, success) ==
    IF success THEN "processed"
    ELSE IF attempts > StoreFailThreshold THEN "failed"
    ELSE status

\* The status updateWebhook leaves, given the incremented attempt count.
UpdatedStatus(status, attempts, success) ==
    IF success THEN "processed"
    ELSE IF attempts >= StoreFailThreshold THEN "failed"
    ELSE status

\* updateWebhook counting only the attempts that failed.
UpdatedRecord_FailuresOnly(w, result, t) ==
    LET success == (result = "success")
        n == IF success THEN w.processingAttempts ELSE w.processingAttempts + 1
    IN  [w EXCEPT !.processingAttempts = n,
                  !.lastProcessingAttempt = Some(t),
                  !.status = UpdatedStatus(w.status, n, success),
                  !.processedAt = IF success THEN Some(t) ELSE @,
                  !.processingResult = result]

\* updateWebhook replacing the record by a new object that keeps no headers.
UpdatedRecord_DropsHeaders(w, result, t) ==
    LET success == (result = "success")
        n == w.processingAttempts + 1
    IN  [w EXCEPT !.processingAttempts = n,
                  !.lastProcessingAttempt = Some(t),
                  !.status = UpdatedStatus(w.status, n, success),
                  !.processedAt = IF success THEN Some(t) ELSE @,
                  !.processingResult = result,
                  !.headers = "none"]

\* updateWebhook on one record; result is the processing result's tag.
UpdatedRecord(w, result, t) ==
    LET success == (result = "success")
        n == w.processingAttempts + 1
    IN  [w EXCEPT !.processingAttempts = n,
                  !.lastProcessingAttempt = Some(t),
                  !.status = UpdatedStatus(w.status, n, success),
                  !.processedAt = IF success THEN Some(t) ELSE @,
                  !.processingResult = result]

\* updateWebhook creating the record when the id is not found.
UpdateWebhook_Upsert(ws, id, result, t) ==
    IF id \notin DOMAIN ws
    THEN With(ws, id, UpdatedRecord(NewRecord("unknown", "", "none", t), result, t))
    ELSE [ws EXCEPT ![id] = UpdatedRecord(ws[id], result, t)]

\* updateWebhook: undefined (no change) when the id is not found.
UpdateWebhook(ws, id, result, t) ==
    IF id \notin DOMAIN ws THEN ws
    ELSE [ws EXCEPT ![id] = UpdatedRecord(ws[id], result, t)]

\* getPendingWebhooks without the status filter.
GetPendingWebhooks_AnyStatus(ws, maxAttempts) ==
    {id \in DOMAIN ws : ws[id].processingAttempts < maxAttempts}

\* getPendingWebhooks without the attempt filter.
GetPendingWebhooks_AnyAttempts(ws, maxAttempts) ==
    {id \in DOMAIN ws : ws[id].status = "pending"}

\* getPendingWebhooks(maxAttempts): the ids of the records it returns.
GetPendingWebhooks(ws, maxAttempts) ==
    {id \in DOMAIN ws :
        ws[id].status = "pending" /\ ws[id].processingAttempts < maxAttempts}

\* JSON.stringify of an optional Date (saveWebhook): an ISO string, or nothing.
JsonDate(d) == IF d = None THEN None ELSE <<"iso", d[1]>>

\* new Date(string) on a loaded field that is present (loadWebhooks).
ParseDate(j) == IF j = None THEN None ELSE Some(j[2])

\* The contents of <id>.json as saveWebhook writes them.
Serialize(w) ==
    [w EXCEPT !.receivedAt = <<"iso", @>>,
              !.lastProcessingAttempt = JsonDate(@),
              !.processedAt = JsonDate(@)]

\* loadWebhooks: one record per <id>.json file, its dates parsed back from
\* their strings.
LoadWebhooks(d) ==
    [id \in DOMAIN d |->
        [d[id] EXCEPT !.receivedAt = @[2],
                      !.lastProcessingAttempt = ParseDate(@),
                      !.processedAt = ParseDate(@)]]

\* -------------------------------------------------------------- WebhookQueue

\* A setTimeout timer: the callback's captured id and headers, the delay it
\* was armed with and the instant it becomes due.
Timer(id, delay, headers, kind, t) ==
    [id |-> id, delay |-> delay, due |-> t + delay, headers |-> headers, kind |-> kind]

\* setInterval in place of setTimeout: the timer stays armed after it fires.
AfterFire_Interval(ts, t) == ts

\* The armed timers once timer t has fired: setTimeout fires once.
AfterFire(ts, t) == BagRemove(ts, t)

\* clearTimeout(handle): no effect on a timer that already fired.
ClearTimeout(ts, h) == IF BagIn(h, ts) THEN BagRemove(ts, h) ELSE ts

\* initializeRetryQueue run twice over the pending records.
InitializeRetryQueue_Twice(ws, t) ==
    LET pending == GetPendingWebhooks(ws, MAX_RETRY_ATTEMPTS)
        timerOf == [id \in pending |->
                       Timer(id, StartupRetryDelay, ws[id].headers, "startup", t)]
        once == SetToBag({timerOf[id] : id \in pending})
    IN  [timers |-> once (+) once, pq |-> timerOf]

\* initializeRetryQueue: the timers it arms, as [timers, pq].
InitializeRetryQueue(ws, t) ==
    LET pending == GetPendingWebhooks(ws, MAX_RETRY_ATTEMPTS)
        timerOf == [id \in pending |->
                       Timer(id, StartupRetryDelay, ws[id].headers, "startup", t)]
    IN  [timers |-> SetToBag({timerOf[id] : id \in pending}), pq |-> timerOf]

\* processWebhook's guard: skip a record already processed or permanently failed.
SkipProcessing(w) ==
    \/ w.status = "processed"
    \/ (w.processingAttempts >= MAX_RETRY_ATTEMPTS /\ w.status = "failed")

\* WebhookProcessorFactory.getProcessor throws for any other provider.
HasProcessor(provider) == provider \in {"doordash", "uber"}

\* The retry condition asking only whether the record is still unprocessed.
ShouldRetry_UntilProcessed(w) ==
    w.status # "processed"

\* The retry condition stopping one attempt early.
ShouldRetry_Early(w) ==
    w.status = "pending" /\ w.processingAttempts < MAX_RETRY_ATTEMPTS - 1

\* The retry condition without the status check and off by one.
ShouldRetry_Late(w) ==
    w.processingAttempts <= MAX_RETRY_ATTEMPTS

\* handleProcessingFailure's retry condition, on the updated record.
ShouldRetry(w) ==
    w.status = "pending" /\ w.processingAttempts < MAX_RETRY_ATTEMPTS

\* The delay indexed by the attempt count itself.
RetryDelay_OffByOne(attempts) ==
    RETRY_INTERVALS[Min(attempts, Len(RETRY_INTERVALS) - 1) + 1]

\* handleProcessingFailure's delay: RETRY_INTERVALS[min(attempts - 1, length - 1)]
\* (the code's index is 0-based).
RetryDelay(attempts) ==
    RETRY_INTERVALS[Min(attempts - 1, Len(RETRY_INTERVALS) - 1) + 1]

\* handleProcessingFailure on q = [timers, pq], reading the updated store ws.
HandleProcessingFailure(q, ws, id, t) ==
    IF id \notin DOMAIN ws THEN q
    ELSE IF ShouldRetry(ws[id]) THEN
        LET cleared == IF id \in DOMAIN q.pq
                       THEN ClearTimeout(q.timers, q.pq[id])
                       ELSE q.timers
            timeout == Timer(id, RetryDelay(ws[id].processingAttempts),
                             ws[id].headers, "retry", t)
        IN  [timers |-> BagAdd(cleared, timeout), pq |-> With(q.pq, id, timeout)]
    ELSE q

\* ---------------------------------------------------------------- processors

\* What a processor's processWebhook can return.  Verification runs only when
\* headers are passed, and its verdict is a function of the payload and the
\* headers: a request with a bad signature is rejected on every attempt.  A
\* request that passes (or is not verified) succeeds unless parsing throws.
Outcomes(headers) ==
    IF headers = "bad-sig" THEN {"invalid_signature"}
    ELSE {"success", "error"}

\* A processor that stores the webhook before it verifies the signature.
ProcessorEffect_StoreFirst(ws, newId, provider, rawData, outcome, t) ==
    LET stored == StoreWebhook(ws, newId, provider, rawData, "none", t)
    IN  IF outcome = "success" THEN UpdateWebhook(stored, newId, "success", t)
        ELSE stored

\* A processor that stores the webhook and never updates it.
ProcessorEffect_NoUpdate(ws, newId, provider, rawData, outcome, t) ==
    IF outcome = "invalid_signature" THEN ws
    ELSE StoreWebhook(ws, newId, provider, rawData, "none", t)

\* The processor's own writes to the store: nothing when verification rejects;
\* otherwise it stores a record of its own (without headers), and updates it
\* with a success result unless parsing threw first.
ProcessorEffect(ws, newId, provider, rawData, outcome, t) ==
    IF outcome = "invalid_signature" THEN ws
    ELSE LET stored == StoreWebhook(ws, newId, provider, rawData, "none", t)
         IN  IF outcome = "error" THEN stored
             ELSE UpdateWebhook(stored, newId, "success", t)

\* ------------------------------------------------------------------ history

HistNew(origin) ==
    [origin |-> origin, times |-> <<>>, results |-> <<>>, delays |-> <<>>,
     successes |-> 0, invoked |-> 0, removed |-> None]

\* The history once the records ids are removed from the store: each entry
\* keeps how many timers were armed and attempts in flight for it just then.
HistRemoved(h, ids, ts, fl) ==
    [id \in DOMAIN h |->
        IF id \in ids
        THEN [h[id] EXCEPT !.removed = Some([armed |-> CountFor(ts, id),
                                             inflight |-> CountFor(fl, id)])]
        ELSE h[id]]

\* The history entry after an updateWebhook with this result at time t.
HistUpdated(e, result, t) ==
    [e EXCEPT !.times = Append(@, t),
              !.results = Append(@, result),
              !.successes = IF result = "success" THEN @ + 1 ELSE @]

\* ----------------------------------------------- one processing attempt

\* The part of processWebhook after the processor's result is known (after the
\* await, or in the catch block): updateWebhook, then handleProcessingFailure
\* unless the result is a success.  st = [ws, q, h, fl].
Settle(st, id, result, t) ==
    LET ws2 == UpdateWebhook(st.ws, id, result, t)
        q2 == IF result = "success" THEN st.q
              ELSE HandleProcessingFailure(st.q, ws2, id, t)
        h1 == IF id \in DOMAIN st.ws
              THEN [st.h EXCEPT ![id] = HistUpdated(@, result, t)]
              ELSE st.h
        h2 == IF q2 # st.q
              THEN [h1 EXCEPT ![id].delays = Append(@, q2.pq[id].delay)]
              ELSE h1
    IN  [ws |-> ws2, q |-> q2, h |-> h2, fl |-> st.fl]

\* processWebhook awaited to its end before addToQueue returns.
StartProcessing_Awaited(st, id, headers, t) ==
    IF id \notin DOMAIN st.ws THEN st
    ELSE IF SkipProcessing(st.ws[id]) THEN st
    ELSE Settle(st, id, IF HasProcessor(st.ws[id].provider) THEN "error"
                        ELSE "queue_error", t)

\* The synchronous part of processWebhook(id, headers): look the record up,
\* apply the guard, resolve the processor (a throw goes to the catch block at
\* once) and call it, which suspends the attempt at the await.
StartProcessing(st, id, headers, t) ==
    IF id \notin DOMAIN st.ws THEN st
    ELSE IF SkipProcessing(st.ws[id]) THEN st
    ELSE IF ~HasProcessor(st.ws[id].provider) THEN Settle(st, id, "queue_error", t)
    ELSE [st EXCEPT
            !.fl = BagAdd(@, [id |-> id,
                              provider |-> st.ws[id].provider,
                              rawData |-> st.ws[id].rawData,
                              headers |-> headers]),
            !.h = [@ EXCEPT ![id].invoked = @ + 1]]

Current == [ws |-> webhooks,
            q |-> [timers |-> timers, pq |-> processingQueue],
            h |-> hist,
            fl |-> inflight]

\* ------------------------------------------------------------------ requests

\* String.prototype.toLowerCase on the provider names used here.
ToLowerCase(name) ==
    CASE name = "DoorDash" -> "doordash"
      [] name = "DOORDASH" -> "doordash"
      [] name = "UBER" -> "uber"
      [] name = "Uber" -> "uber"
      [] name = "Invalid" -> "invalid"
      [] name = "Delivered" -> "delivered"
      [] name = "Status" -> "status"
      [] OTHER -> name

\* A conversion that accepts every name.
NameSupported_Any(name) == TRUE

\* addToQueue's provider conversion: getProcessorByName throws for a name that
\* is neither doordash nor uber (every enum value is a string at run time).
NameSupported(name) == ToLowerCase(name) \in {"doordash", "uber"}

ProviderEnum(name) == IF ToLowerCase(name) = "doordash" THEN "doordash" ELSE "uber"

\* The deliveries that reach addToQueue.  "good-sig" stands for headers the
\* processor's verifyWebhook accepts, "bad-sig" for headers it rejects (the
\* signature header absent or wrong); the DoorDash route checks Basic
\* authentication only, so such a delivery gets as far as addToQueue.
Requests ==
    { [name |-> "DoorDash", rawData |-> "dd-body", headers |-> "bad-sig"],
      [name |-> "uber", rawData |-> "uber-body", headers |-> "good-sig"],
      [name |-> "unknown", rawData |-> "x-body", headers |-> "none"] }

\* The POST handler's answer: 202 with the id when addToQueue resolves, 500
\* when it rejects.  writable records whether the storage directory could be
\* written at the time of the request.
Accepted(req, writable, id) ==
    Some([req |-> req, writable |-> writable, status |-> 202, success |-> TRUE,
          message |-> "Webhook received and queued for processing", webhookId |-> id])

Rejected(req, writable) ==
    Some([req |-> req, writable |-> writable, status |-> 500, success |-> FALSE,
          message |-> "Error queuing webhook", webhookId |-> 0])

\* No processor-level call has been made; the deployed configuration.
ProcIdle ==
    /\ env = [NODE_ENV |-> "production", BYPASS_WEBHOOK_VERIFICATION |-> "",
              DD_CREDENTIALS |-> TRUE, UBER_CLIENT_SECRET |-> TRUE]
    /\ processors = <<>>
    /\ call = None

\* ------------------------------------------------------------------- boot

\* The records a storage directory can hold when the process starts: what an
\* earlier saveWebhook wrote.  A pending record with all attempts used is
\* included because saveWebhook writes whatever record it is given.
DiskShapes ==
    { [status |-> "pending", n |-> 0], [status |-> "pending", n |-> 1],
      [status |-> "pending", n |-> 2], [status |-> "pending", n |-> MAX_RETRY_ATTEMPTS],
      [status |-> "processed", n |-> 1], [status |-> "failed", n |-> MAX_RETRY_ATTEMPTS] }

DiskRecords ==
    { Serialize(
      [ provider |-> p,
        receivedAt |-> 0,
        processingAttempts |-> sh.n,
        status |-> sh.status,
        rawData |-> "disk-body",
        headers |-> "good-sig",
        lastProcessingAttempt |-> IF sh.n = 0 THEN None ELSE Some(0),
        processedAt |-> IF sh.status = "processed" THEN Some(0) ELSE None,
        processingResult |-> IF sh.status = "processed" THEN "success"
                             ELSE IF sh.n = 0 THEN "none" ELSE "error" ]) :
        p \in {"doordash", "unknown"}, sh \in DiskShapes }

DiskImages ==
    UNION { [D -> DiskRecords] : D \in SUBSET DiskIds }

\* Process start: WebhookStorage loads the directory, then the WebhookQueue
\* constructor arms the startup timers.
Boot(d, t) ==
    LET ws == LoadWebhooks(d)
        q == InitializeRetryQueue(ws, t)
    IN  /\ webhooks' = ws
        /\ timers' = q.timers
        /\ processingQueue' = q.pq
        /\ inflight' = EmptyBag
        /\ hist' = [id \in DOMAIN ws |-> HistNew("disk")]
        /\ justBooted' = TRUE

Init ==
    /\ disk \in DiskImages
    /\ webhooks = LoadWebhooks(disk)
    /\ timers = InitializeRetryQueue(webhooks, 0).timers
    /\ processingQueue = InitializeRetryQueue(webhooks, 0).pq
    /\ inflight = EmptyBag
    /\ hist = [id \in DOMAIN webhooks |-> HistNew("disk")]
    /\ justBooted = TRUE
    /\ now = 0
    /\ added = 0
    /\ restarts = 0
    /\ storeCalls = 0
    /\ response = None
    /\ ProcIdle

\* ----------------------------------------------------------------- actions

Install(st) ==
    /\ webhooks' = st.ws
    /\ timers' = st.q.timers
    /\ processingQueue' = st.q.pq
    /\ hist' = st.h
    /\ inflight' = st.fl
    /\ justBooted' = FALSE

\* addToQueue(provider, rawData, headers): store, start the first attempt,
\* return the id.
AddToQueue(req, writable) ==
    /\ added < MaxAdds
    /\ NameSupported(req.name)
    /\ \E i \in Ids : i \notin UsedIds
    /\ LET id == FreshId(webhooks)
           ws == StoreWebhook(webhooks, id, ProviderEnum(req.name),
                              req.rawData, req.headers, now)
           st == [Current EXCEPT !.ws = ws, !.h = With(hist, id, HistNew("queue"))]
       IN  /\ Install(StartProcessing(st, id, ws[id].headers, now))
           /\ response' = Accepted(req, writable, id)
    /\ added' = added + 1
    /\ UNCHANGED <<disk, now, restarts, storeCalls>>
    /\ UNCHANGED procVars

\* addToQueue with an unsupported provider name: getProcessorByName throws
\* before anything is stored.
AddToQueueThrows(req, writable) ==
    /\ added < MaxAdds
    /\ ~NameSupported(req.name)
    /\ response' = Rejected(req, writable)
    /\ UNCHANGED <<webhooks, disk, timers, processingQueue, inflight, now, hist,
                   added, restarts, justBooted, storeCalls>>
    /\ UNCHANGED procVars

\* The clock reaches the earliest armed timer and it fires: its callback
\* starts an attempt and then deletes the id's entry from processingQueue.
\* The processors do no I/O (every await in them resolves within the same turn
\* of the event loop), so no attempt is still suspended when the clock moves.
TimerFires(tm) ==
    /\ BagIn(tm, timers)
    /\ \A other \in DOMAIN timers : tm.due <= other.due
    /\ tm.due > now => inflight = EmptyBag
    /\ now' = Max(now, tm.due)
    /\ LET st0 == [Current EXCEPT !.q.timers = AfterFire(timers, tm)]
           st1 == StartProcessing(st0, tm.id, tm.headers, now')
       IN  Install([st1 EXCEPT !.q.pq = Without(@, tm.id)])
    /\ response' = None
    /\ UNCHANGED <<disk, added, restarts, storeCalls>>
    /\ UNCHANGED procVars

\* The processor returns: its own store writes, then the rest of processWebhook.
CompleteAttempt(a, outcome) ==
    /\ BagIn(a, inflight)
    /\ outcome \in Outcomes(a.headers)
    /\ \E i \in Ids : i \notin UsedIds
    /\ LET newId == FreshId(webhooks)
           ws1 == ProcessorEffect(webhooks, newId, a.provider, a.rawData, outcome, now)
           h1 == IF newId \in DOMAIN ws1
                 THEN With(hist, newId,
                           IF outcome = "success"
                           THEN HistUpdated(HistNew("processor"), "success", now)
                           ELSE HistNew("processor"))
                 ELSE hist
           st == [Current EXCEPT !.ws = ws1, !.h = h1, !.fl = BagRemove(inflight, a)]
       IN  Install(Settle(st, a.id, outcome, now))
    /\ response' = None
    /\ UNCHANGED <<disk, now, added, restarts, storeCalls>>
    /\ UNCHANGED procVars

\* The process exits and starts again: memory, timers and suspended attempts
\* are gone; the store is what the directory holds.  The clock counts from the
\* start of the process (the dates in the files are from before it).
Restart ==
    /\ restarts < MaxRestarts
    /\ restarts' = restarts + 1
    /\ now' = 0
    /\ Boot(disk, 0)
    /\ response' = None
    /\ UNCHANGED <<disk, added, storeCalls>>
    /\ UNCHANGED procVars

Next ==
    \/ \E req \in Requests, writable \in BOOLEAN : AddToQueue(req, writable)
    \/ \E req \in Requests, writable \in BOOLEAN : AddToQueueThrows(req, writable)
    \/ \E tm \in DOMAIN timers : TimerFires(tm)
    \/ \E a \in DOMAIN inflight : \E o \in Outcomes(a.headers) : CompleteAttempt(a, o)
    \/ Restart

Spec == Init /\ [][Next]_vars

\* The event loop: an armed timer fires in the end, and a processor's promise
\* settles in the end.
LiveSpec ==
    /\ Init
    /\ [][Next]_vars
    /\ WF_vars(\E tm \in DOMAIN timers : TimerFires(tm))
    /\ WF_vars(\E a \in DOMAIN inflight : \E o \in Outcomes(a.headers) :
                   CompleteAttempt(a, o))

\* ------------------------------------- records removed under a running queue

\* deleteWebhook(id): splice the record out of memory and unlink its file (a
\* missing file is logged and ignored); the queue is not told.
DeleteWebhook(id) ==
    /\ storeCalls < MaxRemovals
    /\ id \in DOMAIN webhooks
    /\ webhooks' = Without(webhooks, id)
    /\ disk' = Without(disk, id)
    /\ hist' = HistRemoved(hist, {id}, timers, inflight)
    /\ storeCalls' = storeCalls + 1
    /\ justBooted' = FALSE
    /\ response' = None
    /\ UNCHANGED <<timers, processingQueue, inflight, now, added, restarts>>
    /\ UNCHANGED procVars

\* clearAllWebhooks(): empty the array and unlink every file.
ClearAllWebhooks ==
    /\ storeCalls < MaxRemovals
    /\ DOMAIN webhooks \cup DOMAIN disk # {}
    /\ webhooks' = <<>>
    /\ disk' = <<>>
    /\ hist' = HistRemoved(hist, DOMAIN webhooks, timers, inflight)
    /\ storeCalls' = storeCalls + 1
    /\ justBooted' = FALSE
    /\ response' = None
    /\ UNCHANGED <<timers, processingQueue, inflight, now, added, restarts>>
    /\ UNCHANGED procVars

\* clearWebhooks(): empty the array; the files stay.
ClearWebhooks ==
    /\ storeCalls < MaxRemovals
    /\ DOMAIN webhooks # {}
    /\ webhooks' = <<>>
    /\ hist' = HistRemoved(hist, DOMAIN webhooks, timers, inflight)
    /\ storeCalls' = storeCalls + 1
    /\ justBooted' = FALSE
    /\ response' = None
    /\ UNCHANGED <<disk, timers, processingQueue, inflight, now, added, restarts>>
    /\ UNCHANGED procVars

\* The storage directory of these runs holds up to two records.
DeleteDiskIds == {1, 2}

DeleteDiskImages ==
    UNION { [D -> DiskRecords] : D \in SUBSET DeleteDiskIds }

\* The process has started on such a directory.
DeleteInit ==
    /\ disk \in DeleteDiskImages
    /\ webhooks = LoadWebhooks(disk)
    /\ timers = InitializeRetryQueue(webhooks, 0).timers
    /\ processingQueue = InitializeRetryQueue(webhooks, 0).pq
    /\ inflight = EmptyBag
    /\ hist = [id \in DOMAIN webhooks |-> HistNew("disk")]
    /\ justBooted = TRUE
    /\ now = 0
    /\ added = 0
    /\ restarts = 0
    /\ storeCalls = 0
    /\ response = None
    /\ ProcIdle

\* One run of the process on the records it loaded: timers, attempts and the
\* three removals.
DeleteNext ==
    \/ \E tm \in DOMAIN timers : TimerFires(tm)
    \/ \E a \in DOMAIN inflight : \E o \in Outcomes(a.headers) : CompleteAttempt(a, o)
    \/ \E id \in DOMAIN webhooks : DeleteWebhook(id)
    \/ ClearAllWebhooks
    \/ ClearWebhooks

DeleteSpec == DeleteInit /\ [][DeleteNext]_vars

\* ------------------------------------------- the store's API called directly

StoreInit ==
    /\ webhooks = <<>>
    /\ disk = <<>>
    /\ timers = EmptyBag
    /\ processingQueue = <<>>
    /\ inflight = EmptyBag
    /\ hist = <<>>
    /\ justBooted = FALSE
    /\ now = 0
    /\ added = 0
    /\ restarts = 0
    /\ storeCalls = 0
    /\ response = None
    /\ ProcIdle

\* storeWebhook(provider, rawData, headers), dt seconds after the last call.
StoreWebhookCall(provider, dt) ==
    /\ storeCalls < MaxStoreCalls
    /\ \E i \in Ids : i \notin UsedIds
    /\ now' = now + dt
    /\ LET id == FreshId(webhooks)
       IN  /\ webhooks' = StoreWebhook(webhooks, id, provider, "body", "none", now')
           /\ hist' = With(hist, id, HistNew("store"))
    /\ storeCalls' = storeCalls + 1
    /\ UNCHANGED <<disk, timers, processingQueue, inflight, added, restarts, justBooted,
                   response>>
    /\ UNCHANGED procVars

\* updateWebhook(id, result), dt seconds after the last call.
UpdateWebhookCall(id, result, dt) ==
    /\ storeCalls < MaxStoreCalls
    /\ now' = now + dt
    /\ webhooks' = UpdateWebhook(webhooks, id, result, now')
    /\ hist' = IF id \in DOMAIN webhooks
               THEN [hist EXCEPT ![id] = HistUpdated(@, result, now')]
               ELSE hist
    /\ storeCalls' = storeCalls + 1
    /\ UNCHANGED <<disk, timers, processingQueue, inflight, added, restarts, justBooted,
                   response>>
    /\ UNCHANGED procVars

StoreNext ==
    \/ \E p \in {"doordash"}, dt \in {0, 1} : StoreWebhookCall(p, dt)
    \/ \E id \in DOMAIN webhooks \cup {Cardinality(DOMAIN webhooks) + 1},
          r \in {"success", "error"}, dt \in {0, 1} : UpdateWebhookCall(id, r, dt)

StoreSpec == StoreInit /\ [][StoreNext]_vars

\* ================================================= processor-level functions
\*
\* JavaScript values: an object is a record of the fields it has; a string
\* with structure the code looks into is a record tagged str; null and
\* undefined are their own records.

Undefined == [undefined |-> TRUE]
Null == [null |-> TRUE]

IsString(v) == "str" \in DOMAIN v
Has(obj, field) == field \in DOMAIN obj

\* The decimal string of n, the header string "t=<t>,v1=<v1>", and a string
\* with neither digits nor a v1= part.
Digits(n) == [str |-> "digits", n |-> n]
SigString(t, v1) == [str |-> "sig", t |-> t, v1 |-> v1]
Text(x) == [str |-> "text", text |-> x]

\* The hex digest of HMAC-SHA256 under key over msg (collision-free).
Hmac(key, msg) == [str |-> "hex", key |-> key, msg |-> msg]

\* `${v}`: a string is itself, any object is "[object Object]".
TemplateStr(v) ==
    IF IsString(v) THEN v
    ELSE IF v = Null THEN Text("null")
    ELSE IF v = Undefined THEN Text("undefined")
    ELSE Text("[object Object]")

\* JSON.stringify(v): one text per value.
JsonStringify(v) == [str |-> "json", of |-> v]

\* parseInt(v, 10): the number of a decimal string, NaN (no number) otherwise.
ParseInt(v) == IF IsString(v) /\ v.str = "digits" THEN Some(v.n) ELSE None

ReplayWindow == 300

\* The age check with the boundary inside the rejected range.
TooOld_Inclusive(timestamp, t) ==
    ParseInt(timestamp) # None /\ t - ParseInt(timestamp)[1] >= ReplayWindow

\* currentTime - requestTime > 300; a comparison with NaN is false.
TooOld(timestamp, t) ==
    ParseInt(timestamp) # None /\ t - ParseInt(timestamp)[1] > ReplayWindow

\* signature.split(',').find(s => s.startsWith('v1='))?.split('=')[1]
V1Part(signature) ==
    IF signature.str = "sig" THEN Some(signature.v1) ELSE None

\* verifyWebhookSignature(signature, timestamp, body) at time t: any throw
\* (split on a non-string, buffers of unequal length) is caught and gives false.
VerifyWebhookSignature(signature, timestamp, body, t, e) ==
    IF ~e.DD_CREDENTIALS THEN FALSE
    ELSE IF TooOld(timestamp, t) THEN FALSE
    ELSE IF ~IsString(signature) THEN FALSE
    ELSE IF V1Part(signature) = None THEN FALSE
    ELSE V1Part(signature)[1]
            = Hmac("DD_SIGNING_SECRET",
                   <<TemplateStr(timestamp), "DD_DEVELOPER_ID", TemplateStr(body)>>)

\* DoorDashWebhookProcessor.verifyWebhook(rawData, headers) at time t.
DoorDashVerifyWebhook(rawData, headers, t, e) ==
    IF headers = Undefined THEN FALSE
    ELSE IF ~Has(headers, "x-doordash-signature") \/ ~Has(headers, "x-doordash-timestamp")
    THEN FALSE
    ELSE VerifyWebhookSignature(rawData, headers["x-doordash-signature"],
                                headers["x-doordash-timestamp"], t, e)

\* UberWebhookProcessor.verifyWebhook(rawData, headers) on instance inst.
UberVerifyWebhook(inst, rawData, headers) ==
    IF inst.isDevelopmentMode THEN TRUE
    ELSE IF headers = Undefined THEN FALSE
    ELSE IF ~Has(headers, "x-uber-signature") /\ ~Has(headers, "x-postmates-signature")
    THEN FALSE
    ELSE IF ~inst.clientSecret THEN FALSE
    ELSE LET signature == IF Has(headers, "x-uber-signature")
                          THEN headers["x-uber-signature"]
                          ELSE headers["x-postmates-signature"]
         IN  signature = Hmac("UBER_CLIENT_SECRET", JsonStringify(rawData))

\* processor.verifyWebhook(rawData, headers) on instance inst.
VerifyWebhook(inst, rawData, headers, t, e) ==
    IF inst.cls = "DoorDashWebhookProcessor"
    THEN DoorDashVerifyWebhook(rawData, headers, t, e)
    ELSE UberVerifyWebhook(inst, rawData, headers)

\* The bypass flag each constructor computes from process.env.
DoorDashDevelopmentMode(e) == e.NODE_ENV # "production"

UberDevelopmentMode(e) ==
    e.NODE_ENV = "development" /\ e.BYPASS_WEBHOOK_VERIFICATION = "true"

\* new DoorDashWebhookProcessor() / new UberWebhookProcessor(); serial tells
\* one object from another.
NewProcessor(provider, serial, e) ==
    IF provider = "doordash"
    THEN [cls |-> "DoorDashWebhookProcessor", serial |-> serial,
          developmentMode |-> DoorDashDevelopmentMode(e)]
    ELSE [cls |-> "UberWebhookProcessor", serial |-> serial,
          isDevelopmentMode |-> UberDevelopmentMode(e),
          clientSecret |-> e.UBER_CLIENT_SECRET]

Returned(ps, inst) == [ok |-> TRUE, processor |-> inst, processors |-> ps]
Thrown(ps, value) ==
    [ok |-> FALSE, error |-> <<"Unsupported webhook provider: ", value>>,
     processors |-> ps]

\* getProcessor constructing a processor on every call.
GetProcessor_NoCache(ps, provider, e) ==
    IF HasProcessor(provider)
    THEN LET inst == NewProcessor(provider, Cardinality(DOMAIN ps) + 1
                                      + (IF provider \in DOMAIN ps THEN ps[provider].serial ELSE 0), e)
         IN  Returned(With(ps, provider, inst), inst)
    ELSE Thrown(ps, provider)

\* getProcessor falling back to a default processor for an unknown provider.
GetProcessor_Default(ps, provider, e) ==
    IF provider \in DOMAIN ps THEN Returned(ps, ps[provider])
    ELSE LET inst == NewProcessor(provider, Cardinality(DOMAIN ps) + 1, e)
         IN  Returned(With(ps, provider, inst), inst)

\* WebhookProcessorFactory.getProcessor(provider) on the cache ps.
GetProcessor(ps, provider, e) ==
    IF provider \in DOMAIN ps THEN Returned(ps, ps[provider])
    ELSE IF HasProcessor(provider)
    THEN LET inst == NewProcessor(provider, Cardinality(DOMAIN ps) + 1, e)
         IN  Returned(With(ps, provider, inst), inst)
    ELSE Thrown(ps, provider)

\* WebhookProcessorFactory.getProcessorByName(providerName).
GetProcessorByName(ps, providerName, e) ==
    LET normalizedName == ToLowerCase(providerName)
    IN  CASE normalizedName = "doordash" -> GetProcessor(ps, "doordash", e)
          [] normalizedName = "uber" -> GetProcessor(ps, "uber", e)
          [] OTHER -> Thrown(ps, providerName)

\* ---------------------------------------------------------------- normalizers

\* obj.field || dflt, and obj.a && obj.a.b (|| dflt): every field a payload
\* has holds a truthy value.
Field(obj, field, dflt) == IF Has(obj, field) THEN obj[field] ELSE dflt

Nested(obj, a, b, dflt) ==
    IF Has(obj, a) /\ Has(obj[a], b) THEN obj[a][b] ELSE dflt

\* An event id or timestamp the payload gives, and the one made from the clock.
Given(x) == [given |-> x]
FromClock(prefix, t) == [prefix |-> prefix, clock |-> t]

\* DoorDashWebhookProcessor.mapEventType
DoorDashMapEventType(doorDashEventType) ==
    CASE doorDashEventType = "delivery_created" -> "delivery.created"
      [] doorDashEventType = "delivery_status_update" -> "delivery.status_changed"
      [] OTHER -> "unknown"

\* DoorDashWebhookProcessor.mapDeliveryStatus
DoorDashMapDeliveryStatus(doorDashStatus) ==
    CASE doorDashStatus = "created" -> "pending"
      [] doorDashStatus = "dasher_assigned" -> "assigned"
      [] doorDashStatus = "picked_up" -> "pickup"
      [] doorDashStatus = "en_route_to_dropoff" -> "in_transit"
      [] doorDashStatus = "delivered" -> "delivered"
      [] doorDashStatus = "delivery_failed" -> "failed"
      [] doorDashStatus = "canceled" -> "cancelled"
      [] OTHER -> "unknown"

\* DoorDashWebhookProcessor.parseWebhookEvent(rawData) at time t; reading a
\* field of null throws.
DoorDashParseWebhookEvent(rawData, t) ==
    IF rawData = Null THEN [threw |-> "TypeError"]
    ELSE
    LET eventType == DoorDashMapEventType(Field(rawData, "event_type", ""))
        event == [ id |-> IF Has(rawData, "event_id") THEN Given(rawData.event_id)
                          ELSE FromClock("dd-event-", t),
                   provider |-> "doordash",
                   eventType |-> eventType,
                   timestamp |-> IF Has(rawData, "created_at")
                                 THEN Given(rawData.created_at)
                                 ELSE FromClock("", t),
                   deliveryId |-> Nested(rawData, "data", "delivery_id", ""),
                   externalDeliveryId |-> Nested(rawData, "data", "external_delivery_id", ""),
                   rawData |-> rawData ]
    IN  IF eventType \in {"delivery.status_changed", "delivery.created"}
        THEN [ id |-> event.id, provider |-> event.provider,
               eventType |-> event.eventType, timestamp |-> event.timestamp,
               deliveryId |-> event.deliveryId,
               externalDeliveryId |-> event.externalDeliveryId,
               rawData |-> event.rawData,
               status |-> DoorDashMapDeliveryStatus(
                              Nested(rawData, "data", "delivery_status", "")),
               statusDetails |-> Nested(rawData, "data", "status_details", "") ]
        ELSE event

\* A string of dot-separated words is the sequence of its words.
LowerCaseWords(words) == [i \in DOMAIN words |-> ToLowerCase(words[i])]

\* String.prototype.includes, on whole words.
Includes(words, part) ==
    \E i \in 1..(Len(words) - Len(part) + 1) :
        SubSeq(words, i, i + Len(part) - 1) = part

\* UberWebhookProcessor.mapEventType
UberMapEventType(uberEventType) ==
    IF uberEventType = <<>> THEN "unknown"
    ELSE
    LET normalizedType == LowerCaseWords(uberEventType)
    IN  IF normalizedType = <<"event", "delivery_status">> THEN "delivery.status_changed"
        ELSE IF normalizedType = <<"event", "courier_update">> THEN "courier.location.updated"
        ELSE IF Includes(normalizedType, <<"delivery", "created">>) THEN "delivery.created"
        ELSE IF Includes(normalizedType, <<"status", "changed">>) THEN "delivery.status_changed"
        ELSE IF Includes(normalizedType, <<"pickup", "completed">>) THEN "delivery.pickup"
        ELSE IF Includes(normalizedType, <<"delivery", "completed">>) THEN "delivery.completed"
        ELSE IF Includes(normalizedType, <<"cancelled">>)
                \/ Includes(normalizedType, <<"canceled">>) THEN "delivery.cancelled"
        ELSE "unknown"

\* UberWebhookProcessor.mapDeliveryStatus
UberMapDeliveryStatus(uberStatus) ==
    LET normalizedStatus == ToLowerCase(uberStatus)
    IN  CASE normalizedStatus \in {"pending", "created"} -> "pending"
          [] normalizedStatus \in {"pickup", "courier_assigned", "accepted"} -> "assigned"
          [] normalizedStatus \in {"pickup_complete", "picked_up"} -> "pickup"
          [] normalizedStatus \in {"dropoff", "in_transit", "en_route_to_dropoff"}
                -> "in_transit"
          [] normalizedStatus \in {"delivered", "completed"} -> "delivered"
          [] normalizedStatus \in {"canceled", "cancelled"} -> "cancelled"
          [] normalizedStatus = "returned" -> "returned"
          [] normalizedStatus \in {"failed", "delivery_failed"} -> "failed"
          [] OTHER -> "unknown"

\* A string field that a || chain takes: present and not ''.
NonEmpty(obj, field) == Has(obj, field) /\ obj[field] # ""
NestedNonEmpty(obj, a, b) == Has(obj, a) /\ NonEmpty(obj[a], b)

\* The delivery id probed with the meta field first.
UberDeliveryId_MetaFirst(rawData) ==
    IF NestedNonEmpty(rawData, "meta", "resource_id") THEN rawData.meta.resource_id
    ELSE IF NonEmpty(rawData, "delivery_id") THEN rawData.delivery_id
    ELSE IF NestedNonEmpty(rawData, "data", "id") THEN rawData.data.id
    ELSE ""

\* rawData.delivery_id || meta.resource_id || data.id || ''
UberDeliveryId(rawData) ==
    IF NonEmpty(rawData, "delivery_id") THEN rawData.delivery_id
    ELSE IF NestedNonEmpty(rawData, "meta", "resource_id") THEN rawData.meta.resource_id
    ELSE IF NestedNonEmpty(rawData, "data", "id") THEN rawData.data.id
    ELSE ""

\* rawData.status || meta.status || data.status || 'unknown'
UberStatus(rawData) ==
    IF NonEmpty(rawData, "status") THEN rawData.status
    ELSE IF NestedNonEmpty(rawData, "meta", "status") THEN rawData.meta.status
    ELSE IF NestedNonEmpty(rawData, "data", "status") THEN rawData.data.status
    ELSE "unknown"

\* rawData.location || data.courier.location, as {latitude, longitude}.
UberLocation(rawData) ==
    LET location == IF Has(rawData, "location") THEN rawData.location
                    ELSE IF Has(rawData, "data") /\ Has(rawData.data, "courier")
                    THEN Field(rawData.data.courier, "location", Undefined)
                    ELSE Undefined
    IN  IF location = Undefined THEN Undefined
        ELSE [latitude |-> Field(location, "lat", Field(location, "latitude", Undefined)),
              longitude |-> Field(location, "lng", Field(location, "longitude", Undefined))]

\* UberWebhookProcessor.parseWebhookEvent(rawData) at time t.
UberParseWebhookEvent(rawData, t) ==
    IF rawData = Null THEN [threw |-> "TypeError"]
    ELSE
    LET eventType == UberMapEventType(
                         IF Has(rawData, "kind") THEN rawData.kind
                         ELSE Field(rawData, "event_type", <<>>))
        event == [ id |-> IF Has(rawData, "id") THEN Given(rawData.id)
                          ELSE FromClock("uber-event-", t),
                   provider |-> "uber",
                   eventType |-> eventType,
                   timestamp |-> IF Has(rawData, "created") THEN Given(rawData.created)
                                 ELSE IF Has(rawData, "event_time")
                                 THEN Given(rawData.event_time * 1000)
                                 ELSE FromClock("", t),
                   deliveryId |-> UberDeliveryId(rawData),
                   rawData |-> rawData ]
    IN  IF eventType \in {"delivery.status_changed", "delivery.created", "delivery.pickup",
                          "delivery.completed", "delivery.cancelled"}
        THEN [ id |-> event.id, provider |-> event.provider,
               eventType |-> event.eventType, timestamp |-> event.timestamp,
               deliveryId |-> event.deliveryId, rawData |-> event.rawData,
               status |-> UberMapDeliveryStatus(UberStatus(rawData)),
               statusDetails |-> UberStatus(rawData),
               location |-> UberLocation(rawData),
               trackingUrl |-> Nested(rawData, "data", "tracking_url", ""),
               estimatedDeliveryTime |-> Nested(rawData, "data", "dropoff_eta", "") ]
        ELSE event

\* processor.parseWebhookEvent for the provider's processor.
ParseWebhookEvent(provider, rawData, t) ==
    IF provider = "doordash" THEN DoorDashParseWebhookEvent(rawData, t)
    ELSE UberParseWebhookEvent(rawData, t)

\* -------------------------------------------------- processor-level runs

\* process.env at start: NODE_ENV and the bypass flag in every combination
\* with the secrets configured, and a deployment without secrets.
Envs ==
    { [NODE_ENV |-> n, BYPASS_WEBHOOK_VERIFICATION |-> b,
       DD_CREDENTIALS |-> TRUE, UBER_CLIENT_SECRET |-> TRUE] :
          n \in {"", "development", "production"}, b \in {"", "true"} }
    \cup { [NODE_ENV |-> "production", BYPASS_WEBHOOK_VERIFICATION |-> "",
            DD_CREDENTIALS |-> FALSE, UBER_CLIENT_SECRET |-> FALSE] }

ProcInit ==
    /\ webhooks = <<>>
    /\ disk = <<>>
    /\ timers = EmptyBag
    /\ processingQueue = <<>>
    /\ inflight = EmptyBag
    /\ hist = <<>>
    /\ justBooted = FALSE
    /\ now = UnitEpoch
    /\ added = 0
    /\ restarts = 0
    /\ storeCalls = 0
    /\ response = None
    /\ env \in Envs
    /\ processors = <<>>
    /\ call = None

queueVars ==
    <<webhooks, disk, timers, processingQueue, inflight, now, hist, added,
      restarts, justBooted, storeCalls, response>>

\* WebhookProcessorFactory.getProcessor(provider)
GetProcessorCall(provider) ==
    LET r == GetProcessor(processors, provider, env)
    IN  /\ processors' = r.processors
        /\ call' = Some([op |-> "getProcessor", provider |-> provider, result |-> r])
        /\ UNCHANGED <<queueVars, env>>

\* WebhookProcessorFactory.getProcessorByName(providerName)
GetProcessorByNameCall(providerName) ==
    LET r == GetProcessorByName(processors, providerName, env)
    IN  /\ processors' = r.processors
        /\ call' = Some([op |-> "getProcessorByName", providerName |-> providerName,
                         result |-> r])
        /\ UNCHANGED <<queueVars, env>>

ProviderValues == {"doordash", "uber", "unknown", "invalid"}
ProviderNames == {"doordash", "DoorDash", "DOORDASH", "uber", "Uber", "UBER",
                  "unknown", "Invalid"}

FactoryNext ==
    \/ \E provider \in ProviderValues : GetProcessorCall(provider)
    \/ \E providerName \in ProviderNames : GetProcessorByNameCall(providerName)

FactorySpec == ProcInit /\ [][FactoryNext]_vars

\* The deliveries of the acceptance scenarios, a tampered copy, and payloads
\* that are strings of the signature header's form.
DeliveredPayload ==
    [event_type |-> "delivery_status_update",
     data |-> [delivery_id |-> "d1", external_delivery_id |-> "e1",
               delivery_status |-> "delivered"]]

TamperedPayload ==
    [event_type |-> "delivery_status_update",
     data |-> [delivery_id |-> "d1", external_delivery_id |-> "e1",
               delivery_status |-> "delivery_failed"]]

UberPayload ==
    [event_type |-> <<"delivery", "status", "changed">>,
     meta |-> [resource_id |-> "u1", status |-> "delivered"]]

UberTamperedPayload ==
    [event_type |-> <<"delivery", "status", "changed">>,
     meta |-> [resource_id |-> "u1", status |-> "canceled"]]

\* What DoorDash sends for a body at time ts: the signature header
\* t=<ts>,v1=<HMAC over ts + developer id + the body's JSON> and the timestamp.
DoorDashSignature(body, ts) ==
    SigString(ts, Hmac("DD_SIGNING_SECRET",
                       <<Digits(ts), "DD_DEVELOPER_ID", JsonStringify(body)>>))

DoorDashHeaders(body, ts) ==
    ("x-doordash-signature" :> DoorDashSignature(body, ts))
        @@ ("x-doordash-timestamp" :> Digits(ts))

\* Headers whose signature value is a bare number, and a payload string that
\* carries the HMAC over those two header values.
NumericHeaders(ts) ==
    ("x-doordash-signature" :> Digits(ts)) @@ ("x-doordash-timestamp" :> Digits(ts))

SignedString(t, ts) ==
    SigString(t, Hmac("DD_SIGNING_SECRET", <<Digits(ts), "DD_DEVELOPER_ID", Digits(ts)>>))

UberHeaders(body, key) ==
    ("x-uber-signature" :> Hmac(key, JsonStringify(body)))

OtherHeaders == ("content-type" :> Text("application/json"))

VerifyInputs ==
    { [provider |-> "doordash", rawData |-> r, headers |-> h] :
        r \in {DeliveredPayload, TamperedPayload, SignedString(1, UnitEpoch),
               SignedString(2, UnitEpoch)},
        h \in {DoorDashHeaders(DeliveredPayload, UnitEpoch),
               DoorDashHeaders(DeliveredPayload, UnitEpoch - ReplayWindow - 1),
               NumericHeaders(UnitEpoch),
               ("x-doordash-signature" :> DoorDashSignature(DeliveredPayload, UnitEpoch)),
               OtherHeaders, Undefined} }
    \cup
    { [provider |-> "uber", rawData |-> r, headers |-> h] :
        r \in {UberPayload, UberTamperedPayload},
        h \in {UberHeaders(UberPayload, "UBER_CLIENT_SECRET"),
               UberHeaders(UberPayload, "other-secret"),
               ("x-postmates-signature" :> Hmac("UBER_CLIENT_SECRET",
                                               JsonStringify(UberPayload))),
               OtherHeaders, Undefined} }

\* The delays after which the queue verifies a delivery again.
RetryTimes == {0, RETRY_INTERVALS[1], RETRY_INTERVALS[1] + RETRY_INTERVALS[2]}

\* processor.verifyWebhook(rawData, headers) on the factory's instance.
VerifyWebhookCall(in) ==
    LET r == GetProcessor(processors, in.provider, env)
    IN  /\ processors' = r.processors
        /\ call' = Some([op |-> "verifyWebhook", provider |-> in.provider,
                         rawData |-> in.rawData, headers |-> in.headers, at |-> now,
                         result |-> VerifyWebhook(r.processor, in.rawData, in.headers,
                                                  now, env),
                         again |-> None])
        /\ UNCHANGED <<queueVars, env>>

\* The same processor verifies again dt seconds later, with the same headers
\* and the payload rawData.
VerifyAgain(rawData, dt) ==
    /\ call # None
    /\ call[1].op = "verifyWebhook"
    /\ call[1].again = None
    /\ \E in \in VerifyInputs : in.provider = call[1].provider /\ in.rawData = rawData
    /\ call' = Some([call[1] EXCEPT !.again =
                        Some([rawData |-> rawData, at |-> now + dt,
                              result |-> VerifyWebhook(processors[call[1].provider],
                                                       rawData, call[1].headers,
                                                       now + dt, env)])])
    /\ UNCHANGED <<queueVars, env, processors>>

\* Timestamps around the edge of the replay window, the present and the future.
UtilTimestamps ==
    {UnitEpoch - ReplayWindow - 1, UnitEpoch - ReplayWindow,
     UnitEpoch - ReplayWindow + 1, UnitEpoch, UnitEpoch + 10}

\* The signature DoorDash made for the delivered payload at ts (or no
\* signature at all), presented with timestamp ts and either body.
UtilInputs ==
    UNION { { [signature |-> sg, timestamp |-> Digits(ts), body |-> JsonStringify(b)] :
                b \in {DeliveredPayload, TamperedPayload},
                sg \in {DoorDashSignature(DeliveredPayload, ts), Text("garbage")} } :
            ts \in UtilTimestamps }

\* verifyWebhookSignature(signature, timestamp, body) called directly.
VerifySignatureCall(in) ==
    /\ call' = Some([op |-> "verifyWebhookSignature", signature |-> in.signature,
                     timestamp |-> in.timestamp, body |-> in.body, at |-> now,
                     result |-> VerifyWebhookSignature(in.signature, in.timestamp,
                                                       in.body, now, env)])
    /\ UNCHANGED <<queueVars, env, processors>>

VerifyNext ==
    \/ \E in \in VerifyInputs : VerifyWebhookCall(in)
    \/ \E rawData \in {in.rawData : in \in VerifyInputs}, dt \in RetryTimes :
          VerifyAgain(rawData, dt)
    \/ \E in \in UtilInputs : VerifySignatureCall(in)

VerifySpec == ProcInit /\ [][VerifyNext]_vars

\* The flag processWebhook reads on its instance.
BypassMode(inst) ==
    IF inst.cls = "DoorDashWebhookProcessor" THEN inst.developmentMode
    ELSE inst.isDevelopmentMode

\* The result objects processWebhook builds: the success result (the same
\* literal is passed to updateWebhook and returned), the rejection and the one
\* of the catch block.
SuccessResult(event) ==
    [success |-> TRUE,
     message |-> <<"Processed ", event.eventType, " event for delivery ",
                   event.deliveryId>>,
     event |-> event]

InvalidSignatureResult ==
    [success |-> FALSE, message |-> <<"Invalid webhook signature">>]

ErrorResult(error) ==
    [success |-> FALSE, message |-> <<"Error processing webhook: ", error>>,
     error |-> error]

\* What processor.processWebhook(rawData, headers) does at time t, as
\* [verified, outcome, event]: verification only with headers and without
\* bypass, then the store, then parsing (a throw is caught).
ProcessWebhook(inst, provider, rawData, headers, t, e) ==
    LET verifies == headers # Undefined /\ ~BypassMode(inst)
        isValid == verifies => VerifyWebhook(inst, rawData, headers, t, e)
        event == ParseWebhookEvent(provider, rawData, t)
        outcome == IF ~isValid THEN "invalid_signature"
                   ELSE IF Has(event, "threw") THEN "error"
                   ELSE "success"
    IN  [verified |-> verifies,
         outcome |-> outcome,
         event |-> IF isValid THEN event ELSE Undefined,
         updated |-> IF outcome = "success" THEN Some(SuccessResult(event)) ELSE None,
         result |-> IF outcome = "success" THEN SuccessResult(event)
                    ELSE IF outcome = "error" THEN ErrorResult(event.threw)
                    ELSE InvalidSignatureResult]

ProcessInputs ==
    VerifyInputs
        \cup { [provider |-> p, rawData |-> Null, headers |-> Undefined] :
                  p \in {"doordash", "uber"} }

\* processor.processWebhook(rawData, headers) called on the factory's instance.
ProcessWebhookCall(in) ==
    /\ Cardinality(DOMAIN webhooks) < MaxProcessCalls
    /\ LET r == GetProcessor(processors, in.provider, env)
           res == ProcessWebhook(r.processor, in.provider, in.rawData, in.headers,
                                 now, env)
           newId == FreshId(webhooks)
           ws == ProcessorEffect(webhooks, newId, in.provider, in.rawData,
                                 res.outcome, now)
       IN  /\ processors' = r.processors
           /\ webhooks' = ws
           /\ hist' = IF newId \in DOMAIN ws
                      THEN With(hist, newId,
                                IF res.outcome = "success"
                                THEN HistUpdated(HistNew("processor"), "success", now)
                                ELSE HistNew("processor"))
                      ELSE hist
           /\ call' = Some([op |-> "processWebhook", provider |-> in.provider,
                            rawData |-> in.rawData, headers |-> in.headers, at |-> now,
                            verified |-> res.verified, outcome |-> res.outcome,
                            event |-> res.event,
                            updated |-> res.updated, result |-> res.result,
                            record |-> IF newId \in DOMAIN ws THEN newId ELSE 0])
    /\ UNCHANGED <<disk, timers, processingQueue, inflight, now, added, restarts,
                   justBooted, storeCalls, response, env>>

ProcessNext == \E in \in ProcessInputs : ProcessWebhookCall(in)

ProcessSpec == ProcInit /\ [][ProcessNext]_vars

\* Payloads for the normalizers: every combination of the optional fields.
NoFields == [x \in {} |-> x]
Opt(present, fields) == IF present THEN fields ELSE NoFields

UberPayloads ==
    { ("event_type" :> et)
        @@ Opt(a, "delivery_id" :> "top-id")
        @@ Opt(b, "meta" :> [resource_id |-> "meta-id", status |-> "delivered"])
        @@ Opt(c, "data" :> [id |-> "data-id", status |-> "dropoff",
                             tracking_url |-> "https://track"])
        @@ Opt(d, "status" :> "Delivered")
        @@ Opt(f, ("id" :> "evt-1") @@ ("event_time" :> 900)) :
        et \in {<<"delivery", "Status", "changed">>, <<"delivery", "created">>,
                <<"courier", "ping">>},
        a \in BOOLEAN, b \in BOOLEAN, c \in BOOLEAN, d \in BOOLEAN, f \in BOOLEAN }
    \cup {UberPayload,
          ("kind" :> <<"event", "delivery_status">>)
              @@ ("data" :> [id |-> "data-id", status |-> "pickup_complete"]),
          [event_type |-> <<"delivery", "Status", "changed">>, delivery_id |-> "",
           status |-> "", meta |-> [resource_id |-> "meta-id"],
           data |-> [id |-> "data-id", status |-> "dropoff"]],
          [event_type |-> <<"delivery", "Status", "changed">>, delivery_id |-> "",
           meta |-> [resource_id |-> "", status |-> ""],
           data |-> [id |-> "", status |-> ""]],
          [event_type |-> <<"delivery", "status", "changed">>,
           event_id |-> "uber-event-123", event_time |-> 900,
           meta |-> [resource_id |-> "uber-del-id-789", status |-> "delivered"]]}

DoorDashPayloads ==
    { ("event_type" :> et)
        @@ Opt(a, "data" :> [delivery_id |-> "d1", external_delivery_id |-> "e1",
                             delivery_status |-> "delivered"])
        @@ Opt(b, "event_id" :> "dd-event-123")
        @@ Opt(c, "created_at" :> 900) :
        et \in {"delivery_status_update", "delivery_created", "test"},
        a \in BOOLEAN, b \in BOOLEAN, c \in BOOLEAN }

NormInputs ==
    { [provider |-> "uber", rawData |-> r] : r \in UberPayloads \cup {Null} }
        \cup { [provider |-> "doordash", rawData |-> r] : r \in DoorDashPayloads \cup {Null} }

\* processor.parseWebhookEvent(rawData), as processWebhook calls it.
ParseCall(in) ==
    /\ call' = Some([op |-> "parseWebhookEvent", provider |-> in.provider,
                     rawData |-> in.rawData, at |-> now,
                     result |-> ParseWebhookEvent(in.provider, in.rawData, now),
                     again |-> None])
    /\ UNCHANGED <<queueVars, env, processors>>

\* The same payload is normalized again dt seconds later (the next attempt).
ParseAgain(dt) ==
    /\ call # None
    /\ call[1].op = "parseWebhookEvent"
    /\ call[1].again = None
    /\ call' = Some([call[1] EXCEPT !.again =
                        Some([at |-> now + dt,
                              result |-> ParseWebhookEvent(call[1].provider,
                                                           call[1].rawData, now + dt)])])
    /\ UNCHANGED <<queueVars, env, processors>>

NormNext ==
    \/ \E in \in NormInputs : ParseCall(in)
    \/ \E dt \in RetryTimes : ParseAgain(dt)

NormSpec == ProcInit /\ [][NormNext]_vars

\* ================================================================ properties

Terminal(w) == w.status \in {"processed", "failed"}
Failure(result) == result # "success"
Armed(id) == CountFor(timers, id)
InFlight(id) == CountFor(inflight, id)

StrictlyIncreasing(sq) == \A i \in 1..(Len(sq) - 1) : sq[i] < sq[i + 1]

\* C1: a record admitted through addToQueue never has more than 3 processing
\* attempts, and while it is still pending it has fewer than 3.
C1_RetryBound ==
    \A id \in DOMAIN webhooks :
        hist[id].origin = "queue" =>
            /\ webhooks[id].processingAttempts <= 3
            /\ webhooks[id].status = "pending" => webhooks[id].processingAttempts < 3

C1_Witness ==
    \E id \in DOMAIN webhooks :
        /\ hist[id].origin = "queue"
        /\ webhooks[id].processingAttempts = 3
        /\ webhooks[id].status = "failed"

\* C2: no updateWebhook call, successful or not, changes the status of a record
\* that is already processed or failed.
C2_TerminalStability ==
    [][\A id \in DOMAIN webhooks :
          (Terminal(webhooks[id]) /\ id \in DOMAIN webhooks')
              => webhooks'[id].status = webhooks[id].status]_vars

\* C3: a record added with addToQueue whose attempts fail twice always has its
\* next attempt pending (in flight or on an armed timer), and when the third
\* attempt succeeds it is processed with processingAttempts = 3, the three
\* lastProcessingAttempt values are strictly increasing and nothing further is
\* scheduled.
C3_AtLeastOnce ==
    \A id \in DOMAIN webhooks :
        hist[id].origin = "queue" =>
            /\ (Len(hist[id].results) < 3 /\ \A i \in DOMAIN hist[id].results :
                                                Failure(hist[id].results[i]))
                   => Armed(id) + InFlight(id) = 1
            /\ (Len(hist[id].results) = 3 /\ Failure(hist[id].results[1])
                    /\ Failure(hist[id].results[2]) /\ hist[id].results[3] = "success")
                   => /\ webhooks[id].status = "processed"
                      /\ webhooks[id].processingAttempts = 3
                      /\ Len(hist[id].times) = 3
                      /\ StrictlyIncreasing(hist[id].times)
                      /\ webhooks[id].lastProcessingAttempt = <<hist[id].times[3]>>
                      /\ Armed(id) + InFlight(id) = 0

C3_Witness ==
    \E id \in DOMAIN webhooks :
        /\ hist[id].origin = "queue"
        /\ hist[id].results = <<"error", "error", "success">>

\* C4: a record whose attempts failed three times in a row is failed with
\* processingAttempts = 3, has no retry timer armed and no attempt in flight,
\* and the processor has been invoked no more often than it has answered.
C4_PermanentFailure ==
    \A id \in DOMAIN webhooks :
        (Len(hist[id].results) >= 3 /\ \A i \in DOMAIN hist[id].results :
                                          Failure(hist[id].results[i]))
            => /\ webhooks[id].status = "failed"
               /\ webhooks[id].processingAttempts = 3
               /\ Len(hist[id].results) = 3
               /\ Armed(id) = 0
               /\ InFlight(id) = 0
               /\ id \notin DOMAIN processingQueue
               /\ hist[id].invoked <= 3

C4_Witness ==
    \E id \in DOMAIN webhooks :
        /\ hist[id].origin = "queue"
        /\ hist[id].results = <<"error", "error", "error">>
        /\ webhooks[id].status = "failed"

\* C5: a record that is processed or failed has no attempt in flight and no
\* retry timer armed, and no record is processed successfully more than once.
C5_TerminalNoRetry ==
    \A id \in DOMAIN webhooks :
        /\ Terminal(webhooks[id]) => (Armed(id) = 0 /\ InFlight(id) = 0)
        /\ hist[id].successes <= 1

C5_Witness ==
    \E id, other \in DOMAIN webhooks :
        /\ hist[id].origin = "queue" /\ webhooks[id].status = "processed"
        /\ hist[other].origin = "disk" /\ webhooks[other].status = "failed"
        /\ hist[other].results # <<>>

\* C6: at most one retry timer is armed per record id, and the handle kept in
\* processingQueue is that timer.
C6_OneTimerPerId ==
    \A id \in Ids :
        /\ Armed(id) <= 1
        /\ id \in DOMAIN processingQueue => BagIn(processingQueue[id], timers)

C6_Witness ==
    \E tm \in DOMAIN timers :
        /\ tm.kind = "retry"
        /\ hist[tm.id].origin = "disk"
        /\ \E other \in DOMAIN timers : other.kind = "retry" /\ hist[other.id].origin = "queue"

\* C7: no record id has two attempts in flight, and while an attempt is in
\* flight no timer is armed that could start another one for the same id.
C7_SequentialAttempts ==
    \A id \in Ids :
        /\ InFlight(id) <= 1
        /\ InFlight(id) = 1 => Armed(id) = 0

C7_Witness ==
    \E a, b \in DOMAIN inflight :
        /\ a.id # b.id
        /\ hist[a.id].results # <<>>
        /\ hist[b.id].results # <<>>

\* C8: the retry armed after the k-th failed attempt (k < 3) has delay 60 s for
\* k = 1 and 300 s for k = 2; the delays of one record's successive retries are
\* strictly increasing; an attempt count beyond the schedule clamps to 1800 s.
C8_RetrySchedule ==
    /\ \A tm \in DOMAIN timers :
          tm.kind = "retry" =>
              LET k == webhooks[tm.id].processingAttempts
              IN  /\ k \in {1, 2}
                  /\ tm.delay = IF k = 1 THEN 60 ELSE 300
                  /\ tm.delay = RETRY_INTERVALS[Min(k - 1, 2) + 1]
    /\ \A id \in DOMAIN webhooks : StrictlyIncreasing(hist[id].delays)
    /\ \A k \in 3..6 : RetryDelay(k) = 1800

C8_Witness ==
    \E id \in DOMAIN webhooks :
        /\ hist[id].delays = <<60, 300>>
        /\ Armed(id) = 1

\* C9: every record in memory has a file in the storage directory holding the
\* same status and processingAttempts.
C9_Durability ==
    \A id \in DOMAIN webhooks :
        /\ id \in DOMAIN disk
        /\ disk[id].status = webhooks[id].status
        /\ disk[id].processingAttempts = webhooks[id].processingAttempts

\* C10: right after the queue is constructed, exactly the stored records that
\* are pending with fewer than 3 attempts have a timer, one each, with the 5 s
\* delay; a record re-armed this way always has exactly one timer or attempt
\* pending until it is terminal; every attempt is made with the record's stored
\* rawData and headers.
C10_StartupRecovery ==
    /\ justBooted =>
          /\ \A id \in DOMAIN webhooks :
                Armed(id) = IF webhooks[id].status = "pending"
                               /\ webhooks[id].processingAttempts < 3
                            THEN 1 ELSE 0
          /\ \A tm \in DOMAIN timers :
                tm.delay = 5 /\ tm.id \in DOMAIN webhooks /\ processingQueue[tm.id] = tm
    /\ \A id \in DOMAIN webhooks :
          hist[id].origin = "disk" =>
              Armed(id) + InFlight(id) =
                  IF webhooks[id].status = "pending" /\ webhooks[id].processingAttempts < 3
                  THEN 1 ELSE 0
    /\ \A tm \in DOMAIN timers : tm.headers = webhooks[tm.id].headers
    /\ \A a \in DOMAIN inflight :
          /\ a.rawData = webhooks[a.id].rawData
          /\ a.headers = webhooks[a.id].headers
          /\ a.provider = webhooks[a.id].provider

C10_Witness ==
    /\ restarts = 1
    /\ \E a \in DOMAIN inflight :
          /\ hist[a.id].origin = "disk"
          /\ hist[a.id].results = <<>>
          /\ webhooks[a.id].processingAttempts = 1

\* The records created since the process started.
CreatedHere == {id \in DOMAIN webhooks : hist[id].origin # "disk"}

\* C11: the store holds exactly one record per addToQueue call that returned an
\* id; no processing attempt adds a record.
C11_OneRecordPerDelivery ==
    restarts = 0 => Cardinality(CreatedHere) = added

\* C12: once an attempt on a record has ended with the 'Invalid webhook
\* signature' result, that is the record's last attempt: no retry timer is armed
\* for it and no attempt is in flight.
C12_AuthFailureNotRetried ==
    \A id \in DOMAIN webhooks :
        \A i \in DOMAIN hist[id].results :
            hist[id].results[i] = "invalid_signature"
                => /\ i = Len(hist[id].results)
                   /\ Armed(id) = 0
                   /\ InFlight(id) = 0

\* C13: a delivery whose signature the processor rejects leaves no record in
\* the store when addToQueue returns, and the handler does not answer with an
\* acceptance but with the failure 'Invalid webhook signature'.
C13_RejectedBeforeStorage ==
    (response # None /\ response[1].req.headers = "bad-sig")
        => /\ response[1].success = FALSE
           /\ response[1].message = "Invalid webhook signature"
           /\ \A id \in DOMAIN webhooks : webhooks[id].rawData # response[1].req.rawData

\* C14: the step in which a processor rejects the signature stores no record
\* and changes no record other than the one the queue is attempting, whose
\* result the queue records as 'Invalid webhook signature'.
C14_RejectionLeavesStore ==
    [][\A a \in DOMAIN inflight :
          (a.headers = "bad-sig" /\ inflight' = BagRemove(inflight, a)
                /\ restarts' = restarts)
              => /\ DOMAIN webhooks' = DOMAIN webhooks
                 /\ \A id \in DOMAIN webhooks \ {a.id} : webhooks'[id] = webhooks[id]
                 /\ hist'[a.id].results = Append(hist[a.id].results, "invalid_signature")
                 /\ webhooks'[a.id].processingResult = "invalid_signature"]_vars

C14_Witness ==
    \E id, other \in DOMAIN webhooks :
        /\ hist[id].origin = "queue"
        /\ hist[id].results = <<"invalid_signature">>
        /\ hist[other].origin = "processor"

\* C15: no record a processor stored is still pending with no attempt counted
\* once the processor has returned.
C15_ProcessorUpdatesItsRecord ==
    \A id \in DOMAIN webhooks :
        hist[id].origin = "processor"
            => ~(webhooks[id].status = "pending" /\ webhooks[id].processingAttempts = 0)

\* C16: a delivery that arrives while the storage directory cannot be written
\* is answered 500, returns no id and starts no processing attempt.
C16_IntakeFailureLoud ==
    (response # None /\ ~response[1].writable)
        => /\ response[1].status = 500
           /\ \A id \in DOMAIN webhooks : webhooks[id].rawData # response[1].req.rawData
           /\ \A a \in DOMAIN inflight : a.rawData # response[1].req.rawData

\* C17: a processed record has processedAt set and a successful
\* processingResult.
C17_ProcessedIsSuccess ==
    \A id \in DOMAIN webhooks :
        webhooks[id].status = "processed"
            => /\ webhooks[id].processedAt # None
               /\ webhooks[id].processingResult = "success"

\* Timer tm fires in this step.
Fired(tm) == CopiesIn(tm, timers') < CopiesIn(tm, timers)

C19_ImmutableFields ==
    [][\A id \in DOMAIN webhooks \cap DOMAIN webhooks' :
          /\ webhooks'[id].provider = webhooks[id].provider
          /\ webhooks'[id].receivedAt = webhooks[id].receivedAt
          /\ webhooks'[id].rawData = webhooks[id].rawData
          /\ webhooks'[id].headers = webhooks[id].headers]_vars

C19_Witness ==
    \E id, other \in DOMAIN webhooks :
        /\ hist[id].origin = "queue"
        /\ webhooks[id].headers = "good-sig"
        /\ webhooks[id].processingAttempts = 2
        /\ hist[other].origin = "disk"
        /\ restarts = 1
        /\ hist[other].results # <<>>

\* C20: every record stored since the process started is processed or failed
\* in the end (or has left the store), given that armed timers fire and
\* attempts complete.
C20_EventuallyTerminal ==
    \A id \in Ids :
        []((id \in DOMAIN webhooks /\ hist[id].origin # "disk")
              => <>(id \notin DOMAIN webhooks \/ Terminal(webhooks[id])))

\* C21: in the state a POST leaves, a delivery for a supported provider has
\* been answered 202 with the id of a record that is already stored with the
\* delivery's payload and headers, still pending with no attempt counted,
\* while its first attempt is in flight with no outcome yet - whatever that
\* outcome will be; only an unsupported provider is answered 500.
C21_AcceptThenProcess ==
    response # None =>
        IF NameSupported(response[1].req.name)
        THEN /\ response[1].status = 202
             /\ response[1].success
             /\ response[1].webhookId \in DOMAIN webhooks
             /\ LET id == response[1].webhookId
                IN  /\ webhooks[id].rawData = response[1].req.rawData
                    /\ webhooks[id].headers = response[1].req.headers
                    /\ webhooks[id].status = "pending"
                    /\ webhooks[id].processingAttempts = 0
                    /\ hist[id].results = <<>>
                    /\ hist[id].invoked = 1
                    /\ InFlight(id) = 1
        ELSE response[1].status = 500

C21_Witness ==
    /\ response # None
    /\ response[1].status = 202
    /\ response[1].req.headers = "bad-sig"
    /\ InFlight(response[1].webhookId) = 1
    /\ \E id \in DOMAIN webhooks : hist[id].origin = "disk"

\* C22: a processor that verifies the same payload and headers again later
\* reaches the verdict it reached the first time.
C22_VerificationRepeatable ==
    (call # None /\ call[1].op = "verifyWebhook" /\ call[1].again # None
        /\ call[1].again[1].rawData = call[1].rawData)
        => call[1].again[1].result = call[1].result

\* C23: with verification enabled and the DoorDash credentials configured, the
\* delivered payload with DoorDash's signature and a fresh timestamp is
\* processed successfully: its record is processed and its status normalizes
\* to delivered.
C23_ValidDoorDashProcessed ==
    (call # None /\ call[1].op = "processWebhook" /\ call[1].provider = "doordash"
        /\ env.NODE_ENV = "production" /\ env.DD_CREDENTIALS
        /\ call[1].rawData = DeliveredPayload
        /\ call[1].headers = DoorDashHeaders(DeliveredPayload, call[1].at))
        => /\ call[1].verified
           /\ call[1].outcome = "success"
           /\ call[1].event.status = "delivered"
           /\ call[1].record \in DOMAIN webhooks
           /\ webhooks[call[1].record].status = "processed"

Age(c) == c.at - c.timestamp.n

\* C24: verifyWebhookSignature returns false whenever the timestamp is more
\* than 300 seconds old, correct HMAC or not, and with the credentials
\* configured it accepts a correct signature whose timestamp is at most 300
\* seconds old.
C24_ReplayProtection ==
    (call # None /\ call[1].op = "verifyWebhookSignature")
        => /\ Age(call[1]) > 300 => call[1].result = FALSE
           /\ (Age(call[1]) <= 300 /\ env.DD_CREDENTIALS
                 /\ call[1].signature
                       = SigString(call[1].timestamp.n,
                                   Hmac("DD_SIGNING_SECRET",
                                        <<call[1].timestamp, "DD_DEVELOPER_ID",
                                          call[1].body>>)))
                => call[1].result = TRUE

C24_Witness ==
    /\ call # None
    /\ call[1].op = "verifyWebhookSignature"
    /\ Age(call[1]) = 301
    /\ env.DD_CREDENTIALS
    /\ call[1].signature = DoorDashSignature(DeliveredPayload, call[1].timestamp.n)
    /\ call[1].body = JsonStringify(DeliveredPayload)
    /\ call[1].result = FALSE

ExplicitBypass ==
    env.NODE_ENV = "development" /\ env.BYPASS_WEBHOOK_VERIFICATION = "true"

\* C25: a processor is in bypass mode only under NODE_ENV=development with
\* BYPASS_WEBHOOK_VERIFICATION=true; otherwise processWebhook verifies every
\* delivery that comes with headers.
C25_BypassOnlyByOptIn ==
    /\ \A p \in DOMAIN processors : BypassMode(processors[p]) => ExplicitBypass
    /\ (call # None /\ call[1].op = "processWebhook" /\ call[1].headers # Undefined
           /\ ~ExplicitBypass)
          => call[1].verified

DoorDashNames == {"doordash", "DoorDash", "DOORDASH"}
UberNames == {"uber", "Uber", "UBER"}

FactoryCall == call' # None /\ call'[1].op \in {"getProcessor", "getProcessorByName"}

\* The provider a factory call asks for, "" when it names none.
Asked(c) ==
    IF c.op = "getProcessor"
    THEN (IF c.provider \in {"doordash", "uber"} THEN c.provider ELSE "")
    ELSE IF c.providerName \in DoorDashNames THEN "doordash"
    ELSE IF c.providerName \in UberNames THEN "uber"
    ELSE ""

\* C26: every factory call for DoorDash or Uber, by enum value or by name in
\* any case, returns a processor of the provider's class, and it is the
\* instance every earlier call for that provider returned.
C26_FactorySingleton ==
    [][/\ \A p \in DOMAIN processors :
             p \in DOMAIN processors' /\ processors'[p] = processors[p]
       /\ (FactoryCall /\ Asked(call'[1]) # "")
             => LET p == Asked(call'[1])
                    r == call'[1].result
                IN  /\ r.ok
                    /\ r.processor.cls = IF p = "doordash"
                                         THEN "DoorDashWebhookProcessor"
                                         ELSE "UberWebhookProcessor"
                    /\ processors'[p] = r.processor
                    /\ p \in DOMAIN processors => r.processor = processors[p]]_vars

C26_Witness ==
    /\ call # None
    /\ call[1].op = "getProcessorByName"
    /\ call[1].providerName = "DOORDASH"
    /\ call[1].result.ok
    /\ call[1].result.processor.serial = 2
    /\ DOMAIN processors = {"doordash", "uber"}

\* C27: a factory call for any other provider value or name throws
\* 'Unsupported webhook provider: <value>', returns no processor and leaves
\* the cache as it was.
C27_UnsupportedThrows ==
    [][(FactoryCall /\ Asked(call'[1]) = "")
          => /\ ~call'[1].result.ok
             /\ ~Has(call'[1].result, "processor")
             /\ call'[1].result.error
                   = <<"Unsupported webhook provider: ",
                       IF call'[1].op = "getProcessor" THEN call'[1].provider
                       ELSE call'[1].providerName>>
             /\ processors' = processors]_vars

C27_Witness ==
    /\ call # None
    /\ call[1].op = "getProcessor"
    /\ call[1].provider = "unknown"
    /\ ~call[1].result.ok
    /\ DOMAIN processors = {"doordash", "uber"}

\* C28: normalizing the same payload again later gives an event equal in
\* every field.
C28_NormalizationDeterministic ==
    (call # None /\ call[1].op = "parseWebhookEvent" /\ call[1].again # None)
        => call[1].again[1].result = call[1].result

\* C29: when a verifier without bypass accepts a payload with some headers, it
\* rejects every different payload presented with the same headers.
C29_TamperRejected ==
    (call # None /\ call[1].op = "verifyWebhook" /\ call[1].again # None
        /\ ~(call[1].provider = "uber" /\ BypassMode(processors["uber"]))
        /\ call[1].result = TRUE
        /\ call[1].again[1].at = call[1].at
        /\ call[1].again[1].rawData # call[1].rawData)
        => call[1].again[1].result = FALSE

\* C30: the Uber normalizer takes deliveryId from delivery_id, else
\* meta.resource_id, else data.id, else ''; for a status event it takes the
\* status from status, else meta.status, else data.status, else 'unknown';
\* the status.changed payload with meta {resource_id u1, status delivered}
\* gives deliveryId u1, DELIVERY_STATUS_CHANGED and DELIVERED.
C30_UberProbeOrder ==
    (call # None /\ call[1].op = "parseWebhookEvent" /\ call[1].provider = "uber"
        /\ call[1].rawData # Null)
        => LET raw == call[1].rawData
               ev == call[1].result
               id1 == NonEmpty(raw, "delivery_id")
               id2 == NestedNonEmpty(raw, "meta", "resource_id")
               id3 == NestedNonEmpty(raw, "data", "id")
               st1 == NonEmpty(raw, "status")
               st2 == NestedNonEmpty(raw, "meta", "status")
               st3 == NestedNonEmpty(raw, "data", "status")
           IN  /\ id1 => ev.deliveryId = raw.delivery_id
               /\ (~id1 /\ id2) => ev.deliveryId = raw.meta.resource_id
               /\ (~id1 /\ ~id2 /\ id3) => ev.deliveryId = raw.data.id
               /\ (~id1 /\ ~id2 /\ ~id3) => ev.deliveryId = ""
               /\ Has(ev, "status") =>
                     /\ st1 => ev.statusDetails = raw.status
                     /\ (~st1 /\ st2) => ev.statusDetails = raw.meta.status
                     /\ (~st1 /\ ~st2 /\ st3) => ev.statusDetails = raw.data.status
                     /\ (~st1 /\ ~st2 /\ ~st3)
                           => ev.statusDetails = "unknown" /\ ev.status = "unknown"
                     /\ ev.statusDetails \in {"delivered", "Delivered"}
                           => ev.status = "delivered"
               /\ raw = UberPayload
                     => /\ ev.deliveryId = "u1"
                        /\ ev.eventType = "delivery.status_changed"
                        /\ ev.status = "delivered"

C30_Witness ==
    /\ call # None
    /\ call[1].op = "parseWebhookEvent"
    /\ call[1].provider = "uber"
    /\ call[1].rawData # Null
    /\ Has(call[1].rawData, "delivery_id")
    /\ Has(call[1].rawData, "meta")
    /\ Has(call[1].rawData, "data")
    /\ call[1].result.deliveryId = "top-id"
    /\ Has(call[1].result, "status")

\* C31: the normalized event's id is the payload's event_id whenever the
\* payload carries one, for both providers; an id made from the clock occurs
\* only for a payload without event_id.
C31_EventIdKept ==
    (call # None /\ call[1].op = "parseWebhookEvent" /\ call[1].rawData # Null)
        => /\ Has(call[1].rawData, "event_id")
                => call[1].result.id = Given(call[1].rawData.event_id)
           /\ Has(call[1].result.id, "clock") => ~Has(call[1].rawData, "event_id")

\* C32: a processWebhook call whose verification does not reject and whose
\* payload normalizes adds exactly one record, stored with the provider and the
\* payload and no headers, updates that record exactly once with the success
\* result carrying the normalized event, leaves every other record alone and
\* returns a success result with the same message and event.
C32_StoreOnceUpdateOnce ==
    [][(call' # None /\ call'[1].op = "processWebhook"
          /\ call'[1].outcome # "invalid_signature" /\ call'[1].rawData # Null)
         => LET c == call'[1]
                id == c.record
            IN  /\ id \notin DOMAIN webhooks
                /\ DOMAIN webhooks' = DOMAIN webhooks \cup {id}
                /\ \A other \in DOMAIN webhooks : webhooks'[other] = webhooks[other]
                /\ webhooks'[id].provider = c.provider
                /\ webhooks'[id].rawData = c.rawData
                /\ webhooks'[id].headers = "none"
                /\ webhooks'[id].processingAttempts = 1
                /\ webhooks'[id].status = "processed"
                /\ webhooks'[id].processingResult = "success"
                /\ hist'[id].results = <<"success">>
                /\ c.updated # None
                /\ c.updated[1].success
                /\ c.updated[1].event = ParseWebhookEvent(c.provider, c.rawData, c.at)
                /\ c.result.success
                /\ c.result.message = c.updated[1].message
                /\ c.result.event = c.updated[1].event]_vars

C32_Witness ==
    /\ call # None
    /\ call[1].op = "processWebhook"
    /\ call[1].provider = "uber"
    /\ call[1].verified
    /\ call[1].result.success
    /\ call[1].result.event.deliveryId = "u1"
    /\ webhooks[call[1].record].status = "processed"
    /\ ~BypassMode(processors["uber"])

\* C33: with bypass disabled, processWebhook stores a record or reports success
\* only for a call whose signature was verified, calls without headers
\* included.
C33_NothingStoredUnverified ==
    (call # None /\ call[1].op = "processWebhook"
        /\ ~BypassMode(processors[call[1].provider])
        /\ (call[1].record # 0 \/ call[1].outcome = "success"))
        => call[1].verified

\* C34: every armed timer has delay 5 s (startup), 60 s (after a first failure)
\* or 300 s (after a second failure), every retry delay ever used is 60 s or
\* 300 s, and a record whose third attempt failed is failed with no timer
\* armed: the 1800 s interval is never used.
C34_ThirdIntervalUnused ==
    /\ \A tm \in DOMAIN timers :
          /\ tm.delay \in {5, 60, 300}
          /\ tm.delay # RETRY_INTERVALS[3]
          /\ tm.kind = "startup" <=> tm.delay = 5
    /\ \A id \in DOMAIN webhooks :
          /\ \A i \in DOMAIN hist[id].delays : hist[id].delays[i] \in {60, 300}
          /\ Len(hist[id].delays) <= 2
          /\ (webhooks[id].processingAttempts >= 3 /\ hist[id].results # <<>>
                 /\ Failure(hist[id].results[Len(hist[id].results)]))
                => webhooks[id].status = "failed" /\ Armed(id) = 0

C34_Witness ==
    \E id \in DOMAIN webhooks :
        /\ hist[id].delays = <<60, 300>>
        /\ Len(hist[id].results) = 3
        /\ webhooks[id].status = "failed"
        /\ Armed(id) = 0
        /\ now >= 360

\* C35: an addToQueue call with a name that is neither doordash nor uber in
\* any case is answered 500 and leaves the records, the attempts in flight and
\* the timers as they were; no record made by addToQueue has the provider
\* unknown.
C35_UnsupportedNameStoresNothing ==
    [][/\ (response' # None
            /\ ToLowerCase(response'[1].req.name) \notin {"doordash", "uber"})
          => /\ response'[1].status = 500
             /\ webhooks' = webhooks
             /\ inflight' = inflight
             /\ timers' = timers
             /\ processingQueue' = processingQueue
             /\ hist' = hist
       /\ \A id \in DOMAIN webhooks' :
             hist'[id].origin = "queue" => webhooks'[id].provider # "unknown"]_vars

C35_Witness ==
    /\ response # None
    /\ response[1].req.name = "unknown"
    /\ response[1].status = 500
    /\ inflight # EmptyBag
    /\ now >= StartupRetryDelay

\* C37: processingQueue has an entry for an id exactly when a retry timer that
\* has not fired yet is armed for that id.
C37_ExactBookkeeping ==
    \A id \in Ids : id \in DOMAIN processingQueue <=> Armed(id) >= 1

\* The timers armed for id in ts are among those armed for it in before.
NoNewTimer(id, before, ts) ==
    \A tm \in DOMAIN ts :
        tm.id = id => BagIn(tm, before) /\ CopiesIn(tm, ts) <= CopiesIn(tm, before)

\* C36: once a record has been removed from the store, no step of the running
\* process brings a record with its id back, invokes the processor for it,
\* puts an attempt in flight for it, arms a timer for it or gives it a
\* processingQueue entry, whether a timer was armed or an attempt in flight
\* when it was removed.
C36_RemovedStaysRemoved ==
    [][\A id \in DOMAIN hist :
          (hist[id].removed # None /\ restarts' = restarts)
            => /\ id \notin DOMAIN webhooks'
               /\ id \in DOMAIN hist'
               /\ hist'[id].invoked = hist[id].invoked
               /\ hist'[id].results = hist[id].results
               /\ CountFor(inflight', id) <= CountFor(inflight, id)
               /\ NoNewTimer(id, timers, timers')
               /\ id \in DOMAIN processingQueue' => id \in DOMAIN processingQueue]_vars

C36_Witness ==
    \E a, b \in DOMAIN hist :
        /\ hist[a].removed # None
        /\ hist[a].removed[1].armed = 1
        /\ Armed(a) = 0
        /\ hist[b].removed # None
        /\ hist[b].removed[1].inflight = 1
        /\ InFlight(b) = 0
        /\ {a, b} \cap DOMAIN webhooks = {}
        /\ {a, b} \cap DOMAIN processingQueue = {}

====
